---- MODULE Spec2Model ----
(***************************************************************************)
(* State-machine model of AsyncExecutor (src/utils/AsyncExecutor.py): the  *)
(* admission controller (execute_async), submission (_submit_task), the    *)
(* completion handler (_done_callback, _cleanup_task), FIFO promotion      *)
(* (_process_next_queued_task), cancel_task, shutdown, and the worker      *)
(* processes that register their pid in the shared _process_pids table.    *)
(*                                                                         *)
(* Threads: the caller threads (Callers), the event-loop thread that       *)
(* resolves futures and runs their done-callbacks, the watchdog threads    *)
(* started by _future_cancle, and the pool workers.  self._lock is a       *)
(* non-reentrant threading.Lock; its holder is lockOwner.                  *)
(***************************************************************************)
EXTENDS Integers, Sequences, FiniteSets, TLC

\* ---------------------------------------------------------------- bounds
MaxCalls == 3        \* execute_async calls explored in one behaviour
MaxThreads == 1      \* largest max_workers passed to the constructor
MaxProcs == 1        \* largest max_processes passed to the constructor
MaxQueue == 2        \* largest max_queue_size passed to the constructor
MaxOps == 1          \* cancel_task, shutdown, set_concurrency, process_callbacks calls explored

IdOrder == <<"A", "B", "C">>
TaskIds == {IdOrder[i] : i \in 1..Len(IdOrder)}
Callers == {"u1"}

VARIABLES
    max_workers,      \* self._thread_pool._max_workers
    max_processes,    \* self._process_pool._max_workers
    max_queue_size,   \* self._max_queue_size
    running,          \* self._running_tasks : id -> [fut, long]
    queued,           \* self._queued_tasks  : insertion-ordered id -> descriptor
    pids,             \* self._process_pids  : id -> pid of the worker running it
    latest,           \* self._latest_task (its task_id, or "none")
    notify,           \* self._notify_processing is set
    shutdown_flag,    \* self._shutdown_flag
    loop_stopped,     \* the event loop has been stopped by shutdown
    pool_broken,      \* self._process_pool._broken
    pool_gen,         \* how many times _restart_process_pool replaced the pool
    pool_down,        \* the pools have been shut down
    lockOwner,        \* holder of self._lock
    fut,              \* every future created by _submit_task, in creation order
    call,             \* per caller thread: the call in progress and its locals
    ncalls,           \* number of execute_async calls made so far
    nids,             \* number of distinct identifiers submitted so far
    nops,             \* number of cancel_task, shutdown, set_concurrency calls
    conc_changed,     \* set_concurrency has been called after construction
    callback_direct,  \* self._callback_direct
    mailbox,          \* self._callback_queue : (callback, result) pairs, oldest first
    hooked            \* argument of the start-notification hook if the last step called it, else "-"

caps == <<max_workers, max_processes, max_queue_size, conc_changed>>
flags == <<notify, shutdown_flag, loop_stopped>>
pool == <<pool_broken, pool_gen, pool_down>>
obs == <<callback_direct, mailbox>>

vars == <<max_workers, max_processes, max_queue_size, running, queued, pids,
          latest, notify, shutdown_flag, loop_stopped, pool_broken, pool_gen,
          pool_down, lockOwner, fut, call, ncalls, nids, nops, conc_changed,
          callback_direct, mailbox, hooked>>

\* ------------------------------------------------------------ containers
Free == [k |-> "free", c |-> "-", f |-> 0]
CallerT(c) == [k |-> "caller", c |-> c, f |-> 0]
DoneT(f) == [k |-> "done", c |-> "-", f |-> f]

EmptyMap == [x \in {} |-> 0]
Put(m, k, v) == [x \in DOMAIN m \cup {k} |-> IF x = k THEN v ELSE m[x]]
Pop(m, k) == [x \in DOMAIN m \ {k} |-> m[x]]

QueuedIds(q) == {q[i].id : i \in 1..Len(q)}

\* RunningTasksContainer.long_task_count / short_task_count
long_task_count(r) == Cardinality({x \in DOMAIN r : r[x].long})
short_task_count(r) == Cardinality({x \in DOMAIN r : ~r[x].long})

\* the duplicate test looking at the running registry only
AlreadyExists_Running(id, r, q) == id \in DOMAIN r

\* execute_async line 218: the identifier is already admitted
AlreadyExists(id, r, q) == id \in DOMAIN r \/ id \in QueuedIds(q)

\* the capacity test with > written for >=
PoolAtCapacity_Over(long, r, mw, mp) ==
    \/ ~long /\ short_task_count(r) > mw
    \/ long /\ long_task_count(r) > mp

\* the capacity test of a short task counting every running task
PoolAtCapacity_Total(long, r, mw, mp) ==
    \/ ~long /\ Cardinality(DOMAIN r) >= mw
    \/ long /\ long_task_count(r) >= mp

\* execute_async lines 226-229: the pool of the task's kind is at capacity
PoolAtCapacity(long, r, mw, mp) ==
    \/ ~long /\ short_task_count(r) >= mw
    \/ long /\ long_task_count(r) >= mp

\* the queue test with > written for >=
QueueIsFull_Over(q, mqs) == Len(q) > mqs

\* execute_async line 230
QueueIsFull(q, mqs) == Len(q) >= mqs

\* insertion at the head of the queue
Enqueue_Front(q, d) == <<d>> \o q

\* execute_async lines 236-242: dict insertion of a fresh key appends
Enqueue(q, d) == Append(q, d)

\* the newest entry of the queue taken for the oldest
FirstQueued_Last(q) == q[Len(q)]

\* _process_next_queued_task line 447: next(iter(self._queued_tasks.items()))
FirstQueued(q) == q[1]

\* the entry left in the queue
PopQueued_Keep(q, id) == q

\* dict.pop(task_id, None) on the insertion-ordered queue
PopQueued(q, id) == SelectSeq(q, LAMBDA d : d.id # id)

\* _process_next_queued_task lines 452-455
ExecUnitFull(long, r, p, mw, mp) ==
    \/ long /\ Cardinality(DOMAIN p) >= mp
    \/ ~long /\ Cardinality(DOMAIN r) >= mw

\* a Python object handed to a callback: its class and, for an exception
\* that wraps another, the class of the wrapped one
NoResult == [cls |-> "-", arg |-> "-"]

IdleCall == [op |-> "idle", pc |-> "idle", id |-> "-", long |-> FALSE,
             cb |-> 0, f |-> 0, pid |-> 0, ret |-> "-", res |-> NoResult]

FutDone(f) == fut[f].state # "pending"

\* _submit_task lines 344-367 (async_wrapper) and _run_long_task lines 269-274:
\* what future.result() gives for each way the work can end.  An exception
\* raised by the callable is returned as an object, so it arrives exactly as
\* an exception object that the callable returned.
FutureResult(out) ==
    CASE out = "value" -> [cls |-> "str", arg |-> "v"]
      [] out \in {"raised", "retexc"} -> [cls |-> "ValueError", arg |-> "e"]
      [] out = "broken" -> [cls |-> "BrokenProcessPool", arg |-> "-"]
      [] out = "nopickle" -> [cls |-> "PicklingError", arg |-> "-"]
      [] out = "cancelled" -> [cls |-> "CancelledError", arg |-> "-"]
      [] OTHER -> NoResult

\* isinstance(result, Exception), line 291
IsException(r) == r.cls \notin {"str", "-"}

\* _done_callback lines 283-300: result = RuntimeError(result) for an exception
Normalise(r) == IF IsException(r) THEN [cls |-> "RuntimeError", arg |-> r.cls] ELSE r

\* the states of a long task's work item that produce an outcome in the loop:
\* the callable finished, the pool broke, the payload could not be pickled
ReadyKinds == {"ready", "broken", "nopickle"}

\* the outcomes a finished work item can have
Outcomes(w) == IF w \in {"exec", "ready"} THEN {"value", "raised", "retexc"} ELSE {w}
AllOutcomes == {"value", "raised", "retexc", "broken", "nopickle", "cancelled"}

\* the ways future.result() can end for a future that is done: CancelledError
\* for a cancelled one, else what its work item produced
OutcomesOf(r) == IF r.state = "cancelled" THEN {"cancelled"} ELSE Outcomes(r.work)

\* a future record as created by run_coroutine_threadsafe in _submit_task
\* work: a short task's callable is on a pool thread ("exec"); a long task
\* waits in the process pool ("pool"), runs in a worker ("exec"), and has its
\* outcome ready for the loop ("ready"); submitting to a broken pool raises
\* BrokenProcessPool inside async_wrapper at once ("broken").
\* out: how the work ended; res: the result computed by _done_callback.
NewFut(id, long, cb, broken) ==
    [id |-> id, long |-> long, cb |-> cb, state |-> "pending",
     work |-> IF long /\ ~broken THEN "pool" ELSE IF long THEN "broken" ELSE "exec",
     pid |-> 0, attached |-> FALSE, wd |-> FALSE,
     dc |-> "none", thr |-> "-", exist |-> FALSE, pf |-> 0,
     out |-> "-", res |-> NoResult]

Futs == 1..Len(fut)

\* A future whose outcome is set, whose done-callback has returned and whose
\* work item has left the pools takes no further part in any decision; only
\* future.done() is still read of it, and future.cancelled-ness only by a
\* cancel_task call that holds it.
Held(i, cl) == \E c \in Callers : cl[c].op = "cancel_task" /\ cl[c].f = i
SettledFor(fs, cl) ==
    [i \in DOMAIN fs |->
       IF fs[i].state # "pending" /\ fs[i].dc = "end" /\ fs[i].work \in ReadyKinds
         THEN [id |-> "-", long |-> FALSE, cb |-> 0,
               state |-> IF Held(i, cl) THEN fs[i].state ELSE "finished",
               work |-> "ready", pid |-> 0, attached |-> TRUE, wd |-> FALSE,
               dc |-> "end", thr |-> "-", exist |-> FALSE, pf |-> 0,
               out |-> "-", res |-> NoResult]
         ELSE fs[i]]
Settled(fs) == SettledFor(fs, call)

\* pid of worker slot s of the current process pool
PidOf(gen, s) == gen * (MaxProcs + 2) + s
\* AsyncExecutor.check_process_alive, lines 694-699, for the pid of a worker
\* that registered it: the worker lives until it is killed, which breaks its
\* pool (shutting the pool down with wait=False does not end it)
ProcessAlive(pid) == pid \div (MaxProcs + 2) = pool_gen /\ ~pool_broken

\* the event-loop thread is inside a done-callback
LoopBusy == \E f \in Futs : fut[f].thr = "loop" /\ fut[f].dc \notin {"none", "end"}

InitMode(direct, ts, procs) ==
    /\ max_workers \in 1..MaxThreads
    /\ max_processes \in procs
    /\ max_queue_size \in 0..MaxQueue
    /\ running = EmptyMap
    /\ queued = <<>>
    /\ pids = EmptyMap
    /\ latest = "none"
    /\ notify = FALSE
    /\ shutdown_flag = FALSE
    /\ loop_stopped = FALSE
    /\ pool_broken = FALSE
    /\ pool_gen = 0
    /\ pool_down = FALSE
    /\ lockOwner = Free
    /\ fut = <<>>
    /\ call = [c \in ts |-> IdleCall]
    /\ ncalls = 0
    /\ nids = 0
    /\ nops = 0
    /\ conc_changed = FALSE
    /\ callback_direct = direct
    /\ mailbox = <<>>
    /\ hooked = "-"

\* callback_direct=True, the default of the constructor
Init == InitMode(TRUE, Callers, 1..MaxProcs)

\* callback_direct=False: callbacks wait in the mailbox for process_callbacks
InitDeferred == InitMode(FALSE, Callers, 1..MaxProcs)

Return(c, r) == call' = [call EXCEPT ![c] = [IdleCall EXCEPT !.ret = r]]

\* ------------------------------------------------------- execute_async
\* lines 199-215: the call and the unlocked test of the shutdown flag.
\* Every call passes a callback object of its own, named by the call's ordinal.
ExecuteAsyncCall(c, id, long) ==
    /\ call[c].pc = "idle"
    /\ ncalls < MaxCalls
    /\ ncalls' = ncalls + 1
    /\ \E i \in 1..Len(IdOrder) :
          \* identifiers are interchangeable: a new one is the next unused
          /\ id = IdOrder[i] /\ i <= nids + 1
          /\ nids' = IF i > nids THEN i ELSE nids
    /\ IF shutdown_flag
         THEN Return(c, "F")
         ELSE call' = [call EXCEPT ![c] =
                  [IdleCall EXCEPT !.op = "execute_async", !.pc = "ea_lock",
                                   !.id = id, !.long = long, !.cb = ncalls + 1]]
    /\ hooked' = "-"
    /\ UNCHANGED <<caps, obs, flags, pool, running, queued, pids, latest, lockOwner, fut,
                   nops>>

\* lines 217-248 and _submit_task lines 336-389: the locked admission
\* decision, up to the creation of the future by run_coroutine_threadsafe
ExecuteAsyncLocked(c) ==
    LET a == call[c] IN
    /\ a.pc = "ea_lock"
    /\ lockOwner = Free
    /\ IF AlreadyExists(a.id, running, queued)
         THEN /\ Return(c, "F")
              /\ UNCHANGED <<queued, latest, fut, lockOwner>>
         ELSE IF PoolAtCapacity(a.long, running, max_workers, max_processes)
         THEN IF QueueIsFull(queued, max_queue_size)
                THEN /\ Return(c, "F")
                     /\ UNCHANGED <<queued, latest, fut, lockOwner>>
                ELSE /\ queued' = Enqueue(queued, [id |-> a.id, long |-> a.long, cb |-> a.cb])
                     /\ Return(c, "T")
                     /\ UNCHANGED <<latest, fut, lockOwner>>
         ELSE IF shutdown_flag
         THEN \* _submit_task raises RuntimeError(SHUTDOWN); caught at 249
              /\ Return(c, "F")
              /\ UNCHANGED <<queued, latest, fut, lockOwner>>
         ELSE /\ fut' = Append(fut, NewFut(a.id, a.long, a.cb, pool_broken))
              /\ latest' = a.id
              /\ lockOwner' = CallerT(c)
              /\ call' = [call EXCEPT ![c].pc = "ea_attach", ![c].f = Len(fut) + 1]
              /\ UNCHANGED queued
    /\ hooked' = "-"
    /\ UNCHANGED <<caps, obs, flags, pool, running, pids, ncalls, nids, nops>>

\* the hook that forgets to report the task
NotifyProcessing_Never(hook, id) == "-"

\* _submit_task line 394: self._notify_processing(task_id)
NotifyProcessing(hook, id) == IF hook THEN id ELSE "-"

\* _submit_task lines 392-394 and execute_async lines 249-252.
\* add_done_callback on a future that is already done runs _done_callback
\* at once in this thread, which then waits for the lock this thread holds.
\* Calling the unset hook (None) raises; execute_async turns that into False.
ExecuteAsyncAttach(c) ==
    LET a == call[c] IN
    /\ a.pc = "ea_attach"
    /\ IF FutDone(a.f) /\ ~shutdown_flag
         THEN /\ call' = [call EXCEPT ![c].pc = "ea_blocked"]
              /\ fut' = Settled([fut EXCEPT ![a.f].dc = "lock", ![a.f].thr = "inline"])
              /\ hooked' = "-"
              /\ UNCHANGED <<running, lockOwner>>
         ELSE /\ fut' = Settled([fut EXCEPT ![a.f].attached = TRUE,
                                    ![a.f].dc = IF FutDone(a.f) THEN "end" ELSE @])
              /\ running' = Put(running, a.id, [fut |-> a.f, long |-> a.long])
              /\ hooked' = NotifyProcessing(notify, a.id)
              /\ lockOwner' = Free
              /\ Return(c, IF notify THEN "T" ELSE "F")
    /\ UNCHANGED <<caps, callback_direct, mailbox, flags, pool, queued, pids, latest,
                   ncalls, nids, nops>>

\* set_notify_processing, lines 254-257
SetNotifyProcessing(c) ==
    /\ call[c].pc = "idle"
    /\ lockOwner = Free
    /\ ncalls = 0
    /\ ~notify
    /\ notify' = TRUE
    /\ hooked' = "-"
    /\ UNCHANGED <<caps, obs, shutdown_flag, loop_stopped, pool, running, queued, pids,
                   latest, lockOwner, fut, call, ncalls, nids, nops>>

\* set_concurrency, lines 623-625 (no lock taken)
SetConcurrency(c, mw, mp) ==
    /\ call[c].pc = "idle"
    /\ nops < MaxOps /\ nops' = nops + 1
    /\ <<mw, mp>> # <<max_workers, max_processes>>
    /\ max_workers' = mw
    /\ max_processes' = mp
    /\ conc_changed' = TRUE
    /\ hooked' = "-"
    /\ UNCHANGED <<max_queue_size, obs, flags, pool, running, queued, pids, latest,
                   lockOwner, fut, call, ncalls, nids>>

\* ------------------------------------------------------ pool workers
\* _run_long_task lines 263-268: a worker process of the pool takes the task
\* and records its pid under the task identifier
WorkerStart(f, s) ==
    /\ fut[f].long /\ fut[f].work = "pool"
    /\ ~pool_broken /\ ~pool_down
    /\ s \in 1..max_processes
    /\ ~\E g \in Futs : fut[g].long /\ fut[g].work = "exec"
                        /\ fut[g].pid = PidOf(pool_gen, s)
    /\ fut' = Settled([fut EXCEPT ![f].work = "exec", ![f].pid = PidOf(pool_gen, s)])
    /\ pids' = Put(pids, fut[f].id, PidOf(pool_gen, s))
    /\ hooked' = "-"
    /\ UNCHANGED <<caps, obs, flags, pool, running, queued, latest, lockOwner, call, ncalls, nids, nops>>

\* _run_long_task lines 270-277: the callable returns or raises and the
\* finally block removes the entry of the task identifier
WorkerExit(f) ==
    /\ fut[f].long /\ fut[f].work = "exec"
    /\ fut' = Settled([fut EXCEPT ![f].work = "ready", ![f].pid = 0])
    /\ pids' = Pop(pids, fut[f].id)
    /\ hooked' = "-"
    /\ UNCHANGED <<caps, obs, flags, pool, running, queued, latest, lockOwner, call, ncalls, nids, nops>>

\* a cancelled future cancels its pool work item if no worker has taken it
DropCancelled(f) ==
    /\ fut[f].long /\ fut[f].work = "pool" /\ fut[f].state = "cancelled"
    /\ fut' = Settled([fut EXCEPT ![f].work = "ready"])
    /\ hooked' = "-"
    /\ UNCHANGED <<caps, obs, flags, pool, running, queued, pids, latest, lockOwner,
                   call, ncalls, nids, nops>>

\* the pool's feeder thread cannot pickle the callable or its arguments:
\* the work item fails with the pickling error and never reaches a worker
PickleFail(f) ==
    /\ fut[f].long /\ fut[f].work = "pool"
    /\ ~pool_broken /\ ~pool_down
    /\ fut' = Settled([fut EXCEPT ![f].work = "nopickle"])
    /\ hooked' = "-"
    /\ UNCHANGED <<caps, obs, flags, pool, running, queued, pids, latest, lockOwner,
                   call, ncalls, nids, nops>>

\* ------------------------------------------------- completion handler
\* the event loop sets the outcome of the future returned by
\* run_coroutine_threadsafe and starts the attached done-callback
Resolve(f) ==
    /\ fut[f].state = "pending"
    /\ ~loop_stopped /\ ~LoopBusy
    /\ fut[f].work \in (IF fut[f].long THEN ReadyKinds ELSE {"exec"})
    /\ fut' = [fut EXCEPT ![f].state = "finished",
                          ![f].work = IF @ = "exec" THEN "ready" ELSE @,
                          ![f].dc = IF fut[f].attached THEN "start" ELSE @,
                          ![f].thr = IF fut[f].attached THEN "loop" ELSE @]
    /\ hooked' = "-"
    /\ UNCHANGED <<caps, obs, flags, pool, running, queued, pids, latest, lockOwner,
                   call, ncalls, nids, nops>>

\* a mailbox that hands out the newest pair first
MailboxPut_Front(q, pair) == <<pair>> \o q

\* _done_callback line 309: self._callback_queue.put((callback, result))
MailboxPut(q, pair) == Append(q, pair)

\* _done_callback lines 317-320 for a handler that leaves the locked section:
\* in direct mode, and if the identifier was registered, callback(result) is
\* called ("cb" while it runs); otherwise the handler returns.  The local
\* variable result of lines 283-300 is read by no step before the mailbox put
\* of line 309 or this call, where the model draws the way the work ended (o).
Invoke(r, o) ==
    IF r.exist /\ callback_direct
      THEN [r EXCEPT !.dc = "cb", !.out = o, !.res = Normalise(FutureResult(o))]
      ELSE [r EXCEPT !.dc = "end"]

\* _done_callback lines 279-302: the unlocked test of the shutdown flag
DoneStart(f) ==
    /\ fut[f].dc = "start"
    /\ fut' = Settled([fut EXCEPT ![f].dc = IF shutdown_flag THEN "end" ELSE "lock"])
    /\ hooked' = "-"
    /\ UNCHANGED <<caps, obs, flags, pool, running, queued, pids, latest, lockOwner,
                   call, ncalls, nids, nops>>

\* _cleanup_task lines 322-325, applied when line 311 finds the registered
\* future of the identifier done
CleanupApplies(id, r) == id \in DOMAIN r /\ FutDone(r[id].fut)
CleanRunning(id, r) == IF CleanupApplies(id, r) THEN Pop(r, id) ELSE r
CleanPids(id, r, p) == IF CleanupApplies(id, r) THEN Pop(p, id) ELSE p

\* _restart_process_pool lines 402-404: purge every identifier with a pid
PurgeRunning(r, p) == [x \in DOMAIN r \ DOMAIN p |-> r[x]]

\* _done_callback lines 303-315 with _process_next_queued_task lines 441-463
\* and _submit_task lines 336-389, all under the lock
DoneLocked(f, o) ==
    LET id == fut[f].id
        lat1 == IF latest = id THEN "none" ELSE latest
        ex == id \in DOMAIN running
        clean == CleanupApplies(id, running)
        r1 == CleanRunning(id, running)
        p1 == CleanPids(id, running, pids)
        h == FirstQueued(queued)
        r2 == IF pool_broken THEN PurgeRunning(r1, p1) ELSE r1
        p2 == IF pool_broken THEN EmptyMap ELSE p1
        me == [fut[f] EXCEPT !.exist = ex]
    IN
    /\ fut[f].dc = "lock"
    /\ lockOwner = Free
    /\ o \in OutcomesOf(fut[f])
    /\ mailbox' = IF callback_direct THEN mailbox
                  ELSE MailboxPut(mailbox, [cb |-> fut[f].cb,
                                            res |-> Normalise(FutureResult(o))])
    /\ IF ~clean \/ (queued = <<>> /\ lat1 = "none")
         THEN \* nothing registered to clean, or "Queue is empty"
              /\ fut' = Settled([fut EXCEPT ![f] = Invoke(me, o)])
              /\ running' = r1 /\ pids' = p1 /\ latest' = lat1
              /\ UNCHANGED <<queued, lockOwner, pool>>
         ELSE IF queued = <<>>
         THEN \* line 447: next() of an empty iterator raises StopIteration,
              \* which leaves _done_callback before the callback is called
              /\ fut' = Settled([fut EXCEPT ![f] = [me EXCEPT !.dc = "end"]])
              /\ running' = r1 /\ pids' = p1 /\ latest' = lat1
              /\ UNCHANGED <<queued, lockOwner, pool>>
         ELSE IF ExecUnitFull(h.long, r1, p1, max_workers, max_processes)
         THEN /\ fut' = Settled([fut EXCEPT ![f] = Invoke(me, o)])
              /\ running' = r1 /\ pids' = p1 /\ latest' = lat1
              /\ UNCHANGED <<queued, lockOwner, pool>>
         ELSE /\ running' = r2 /\ pids' = p2
              /\ pool_broken' = FALSE
              /\ pool_gen' = IF pool_broken THEN pool_gen + 1 ELSE pool_gen
              /\ UNCHANGED pool_down
              /\ IF shutdown_flag
                   THEN \* _submit_task raises; the entry is dropped at 476
                        /\ queued' = PopQueued(queued, h.id)
                        /\ fut' = Settled([fut EXCEPT ![f] = Invoke(me, o)])
                        /\ latest' = lat1
                        /\ UNCHANGED lockOwner
                   ELSE /\ fut' = Append([fut EXCEPT ![f] =
                                     [me EXCEPT !.dc = "attach", !.pf = Len(fut) + 1]],
                                     NewFut(h.id, h.long, h.cb, FALSE))
                        /\ latest' = h.id
                        /\ lockOwner' = DoneT(f)
                        /\ UNCHANGED queued
    /\ hooked' = "-"
    /\ UNCHANGED <<caps, callback_direct, flags, call, ncalls, nids, nops>>

\* _submit_task lines 392-394 for the promoted task, then
\* _process_next_queued_task lines 471-477
DoneAttach(f, o) ==
    LET g == fut[f].pf
        id == fut[g].id
    IN
    /\ fut[f].dc = "attach"
    /\ o \in OutcomesOf(fut[f])
    /\ IF FutDone(g) /\ ~shutdown_flag
         THEN /\ fut' = [fut EXCEPT ![f].dc = "blocked",
                                    ![g].dc = "lock", ![g].thr = "inline"]
              /\ hooked' = "-"
              /\ UNCHANGED <<running, queued, lockOwner>>
         ELSE /\ fut' = Settled([fut EXCEPT ![f] = Invoke(fut[f], o), ![g].attached = TRUE,
                                    ![g].dc = IF FutDone(g) THEN "end" ELSE @])
              /\ running' = Put(running, id, [fut |-> g, long |-> fut[g].long])
              /\ hooked' = NotifyProcessing(notify, id)
              /\ queued' = PopQueued(queued, id)
              /\ lockOwner' = Free
    /\ UNCHANGED <<caps, callback_direct, mailbox, flags, pool, pids, latest, call,
                   ncalls, nids, nops>>

\* _done_callback line 320: the callback called in direct mode returns
DoneCallback(f) ==
    /\ fut[f].dc = "cb"
    /\ fut' = Settled([fut EXCEPT ![f].dc = "end"])
    /\ hooked' = "-"
    /\ UNCHANGED <<caps, obs, flags, pool, running, queued, pids, latest, lockOwner,
                   call, ncalls, nids, nops>>

\* ---------------------------------------------------- process_callbacks
\* lines 479-484: RuntimeError after shutdown, nothing to do in direct mode
ProcessCallbacksCall(c) ==
    /\ call[c].pc = "idle"
    /\ nops < MaxOps /\ nops' = nops + 1
    /\ IF shutdown_flag THEN Return(c, "E")
       ELSE IF callback_direct THEN Return(c, "-")
       ELSE call' = [call EXCEPT ![c] =
               [IdleCall EXCEPT !.op = "process_callbacks", !.pc = "pc_loop"]]
    /\ hooked' = "-"
    /\ UNCHANGED <<caps, obs, flags, pool, running, queued, pids, latest, lockOwner,
                   fut, ncalls, nids>>

\* lines 485-486: while not self._callback_queue.empty(): get()
ProcessCallbacksGet(c) ==
    /\ call[c].pc = "pc_loop"
    /\ IF mailbox = <<>>
         THEN /\ Return(c, "-")
              /\ UNCHANGED mailbox
         ELSE /\ call' = [call EXCEPT ![c].pc = "pc_run",
                                      ![c].cb = Head(mailbox).cb,
                                      ![c].res = Head(mailbox).res]
              /\ mailbox' = Tail(mailbox)
    /\ hooked' = "-"
    /\ UNCHANGED <<caps, callback_direct, flags, pool, running, queued, pids,
                   latest, lockOwner, fut, ncalls, nids, nops>>

\* lines 487-490: callback(result) returns, or raises and is logged
ProcessCallbacksRun(c) ==
    /\ call[c].pc = "pc_run"
    /\ call' = [call EXCEPT ![c].pc = "pc_loop", ![c].cb = 0, ![c].res = NoResult]
    /\ hooked' = "-"
    /\ UNCHANGED <<caps, obs, flags, pool, running, queued, pids, latest, lockOwner,
                   fut, ncalls, nids, nops>>

\* ---------------------------------------------------------- cancel_task
\* psutil.Process(None) is the calling process itself, which is running
Alive(pid) == pid = 0 \/ ProcessAlive(pid)

\* ProcessTerminator.terminate on a live pool worker: the pool becomes broken
\* and every work item it holds fails with BrokenProcessPool; a killed worker
\* does not run the finally block of _run_long_task
KillWorker(fs) ==
    [i \in DOMAIN fs |->
        IF fs[i].long /\ fs[i].work \in {"pool", "exec"}
          THEN [fs[i] EXCEPT !.work = "broken", !.pid = 0]
          ELSE fs[i]]

\* lines 512-530: the first locked section
CancelTaskCall(c, id) ==
    /\ call[c].pc = "idle"
    \* a call on an engine that has been shut down is explored beyond the
    \* budget: it returns, or raises, at once and leads nowhere else
    /\ (nops < MaxOps \/ pool_down)
    /\ nops' = IF nops < MaxOps THEN nops + 1 ELSE nops
    /\ lockOwner = Free
    /\ \E i \in 1..Len(IdOrder) : id = IdOrder[i] /\ i <= nids + 1
    /\ latest' = IF latest = id THEN "none" ELSE latest
    /\ IF id \in QueuedIds(queued)
         THEN /\ queued' = PopQueued(queued, id)
              /\ Return(c, "T")
         ELSE /\ UNCHANGED queued
              /\ IF pool_down
                   THEN \* the manager is gone: _process_pids.get raises
                        Return(c, "E")
                   ELSE call' = [call EXCEPT ![c] =
                          [IdleCall EXCEPT
                             !.op = "cancel_task", !.pc = "ct_check", !.id = id,
                             !.f = IF id \in DOMAIN running THEN running[id].fut ELSE 0,
                             !.pid = IF id \in DOMAIN pids THEN pids[id] ELSE 0,
                             !.long = IF id \in DOMAIN running THEN running[id].long ELSE FALSE]]
    /\ hooked' = "-"
    /\ UNCHANGED <<caps, obs, flags, pool, running, pids, lockOwner, fut, ncalls, nids>>

\* lines 532-565: unknown or finished task; termination of the worker process
CancelCheck(c) ==
    LET a == call[c]
        gone == [call EXCEPT ![c] = [IdleCall EXCEPT !.ret = "F"]]
    IN
    /\ a.pc = "ct_check"
    /\ IF a.f = 0 \/ FutDone(a.f)
         THEN /\ call' = gone
              /\ fut' = SettledFor(fut, gone)
              /\ UNCHANGED pool
         ELSE IF a.pid # 0
         THEN /\ call' = [call EXCEPT ![c].pc = "ct_cancel"]
              /\ IF ProcessAlive(a.pid)
                   THEN /\ fut' = Settled(KillWorker(fut))
                        /\ pool_broken' = TRUE
                        /\ UNCHANGED <<pool_gen, pool_down>>
                   ELSE UNCHANGED <<fut, pool>>
         ELSE /\ call' = [call EXCEPT ![c].pc = "ct_join"]
              /\ fut' = [fut EXCEPT ![a.f].wd = TRUE]
              /\ UNCHANGED pool
    /\ hooked' = "-"
    /\ UNCHANGED <<caps, obs, flags, running, queued, pids, latest, lockOwner, ncalls, nids, nops>>

\* lines 567-570 after the 0.3 s wait that follows the termination
CancelRecheck(c) ==
    LET a == call[c] IN
    /\ a.pc = "ct_cancel"
    /\ IF FutDone(a.f)
         THEN /\ call' = [call EXCEPT ![c].pc = "ct_finish"]
              /\ UNCHANGED fut
         ELSE /\ call' = [call EXCEPT ![c].pc = "ct_join"]
              /\ fut' = [fut EXCEPT ![a.f].wd = TRUE]
    /\ hooked' = "-"
    /\ UNCHANGED <<caps, obs, flags, pool, running, queued, pids, latest, lockOwner,
                   ncalls, nids, nops>>

\* _future_cancle lines 495-504: the watchdog thread calls future.cancel();
\* cancelling a pending future runs its done-callbacks in the watchdog thread
Watchdog(f) ==
    /\ fut[f].wd
    /\ fut' = Settled([fut EXCEPT
          ![f].wd = FALSE,
          ![f].state = IF @ = "pending" THEN "cancelled" ELSE @,
          ![f].dc = IF fut[f].state = "pending" /\ fut[f].attached THEN "start" ELSE @,
          ![f].thr = IF fut[f].state = "pending" /\ fut[f].attached THEN "wd" ELSE @])
    /\ hooked' = "-"
    /\ UNCHANGED <<caps, obs, flags, pool, running, queued, pids, latest, lockOwner,
                   call, ncalls, nids, nops>>

\* the watchdog thread of future f has returned from future.cancel()
WatchdogReturned(f) ==
    /\ ~fut[f].wd
    /\ fut[f].state = "cancelled" => fut[f].dc \in {"none", "end"}

\* _future_cancle lines 505-510, the join with timeout, and cancel_task
\* lines 572 and 584-589 when the cancellation did not succeed in time
CancelJoin(c, timeout) ==
    LET a == call[c]
        gone == [call EXCEPT ![c] = [IdleCall EXCEPT !.ret = IF ~a.long THEN "T" ELSE "F"]]
    IN
    /\ a.pc = "ct_join"
    /\ IF timeout THEN ~WatchdogReturned(a.f) ELSE WatchdogReturned(a.f)
    /\ IF ~timeout /\ fut[a.f].state = "cancelled"
         THEN /\ call' = [call EXCEPT ![c].pc = "ct_finish"]
              /\ UNCHANGED fut
         ELSE /\ call' = gone
              /\ fut' = SettledFor(fut, gone)
    /\ hooked' = "-"
    /\ UNCHANGED <<caps, obs, flags, pool, running, queued, pids, latest, lockOwner,
                   ncalls, nids, nops>>

\* lines 572-582: the second locked section
CancelFinish(c) ==
    LET a == call[c]
        gone == [call EXCEPT ![c] = [IdleCall EXCEPT !.ret = "T"]]
    IN
    /\ a.pc = "ct_finish"
    /\ lockOwner = Free
    /\ running' = IF FutDone(a.f) THEN Pop(running, a.id) ELSE running
    /\ pids' = IF ~Alive(a.pid) THEN Pop(pids, a.id) ELSE pids
    /\ call' = gone
    /\ fut' = SettledFor(fut, gone)
    /\ hooked' = "-"
    /\ UNCHANGED <<caps, obs, flags, pool, queued, latest, lockOwner, ncalls, nids, nops>>

\* is_task_active, lines 676-692 (None counts as False)
IsTaskActive(id) ==
    \/ id \in QueuedIds(queued)
    \/ id \in DOMAIN running /\ ~FutDone(running[id].fut)
    \/ id \in DOMAIN pids /\ ProcessAlive(pids[id])

\* ------------------------------------------------------------- shutdown
\* a caller that only ever shuts the engine down concurrently
Threads == Callers \cup {"u2"}

\* the test that never finds the flag set
ShutdownTest_Never(flag) == FALSE

\* line 630: if self._shutdown_flag
ShutdownTest(flag) == flag

\* lines 627-631: the call and the unlocked test of the shutdown flag.
\* A call that follows or overlaps another shutdown is explored beyond the
\* budget of operations.
ShutdownCall(c) ==
    /\ call[c].pc = "idle"
    /\ (nops < MaxOps \/ pool_down
          \/ \E d \in DOMAIN call : d # c /\ call[d].op = "shutdown")
    /\ nops' = IF nops < MaxOps THEN nops + 1 ELSE nops
    /\ IF ShutdownTest(shutdown_flag)
         THEN \* line 631: return, marked "N" to tell it from a full shutdown
              Return(c, "N")
         ELSE call' = [call EXCEPT ![c] =
                 [IdleCall EXCEPT !.op = "shutdown", !.pc = "sd_set"]]
    /\ hooked' = "-"
    /\ UNCHANGED <<caps, obs, flags, pool, running, queued, pids,
                   latest, lockOwner, fut, ncalls, nids>>

\* line 633: self._shutdown_flag = True
ShutdownSetFlag(c) ==
    /\ call[c].pc = "sd_set"
    /\ shutdown_flag' = TRUE
    /\ call' = [call EXCEPT ![c].pc = "sd_lock"]
    /\ hooked' = "-"
    /\ UNCHANGED <<caps, obs, notify, loop_stopped, pool, running, queued, pids,
                   latest, lockOwner, fut, ncalls, nids, nops>>

\* a shutdown that leaves the queued registry as it is
ClearQueue_Keep(q) == q

\* line 637: self._queued_tasks.clear()
ClearQueue(q) == <<>>

\* lines 635-668, the locked section: the registries are cleared, registered
\* worker processes terminated, running futures cancelled (their
\* done-callbacks see the flag and do nothing), the loop stopped and the
\* mailbox emptied.  On an engine whose manager is shut down the scan of
\* _process_pids at line 641 raises; on a loop that the loop thread has
\* closed (line 185) call_soon_threadsafe at line 662 raises.
ShutdownLocked(c, closed) ==
    LET killed == \E x \in DOMAIN pids : ProcessAlive(pids[x])
        fs1 == IF killed THEN KillWorker(fut) ELSE fut
        fs2 == [i \in DOMAIN fs1 |->
                  IF (\E x \in DOMAIN running : running[x].fut = i)
                     /\ fs1[i].state = "pending"
                    THEN [fs1[i] EXCEPT !.state = "cancelled", !.dc = "end"]
                    ELSE fs1[i]]
    IN
    /\ call[c].pc = "sd_lock"
    /\ lockOwner = Free
    /\ closed => loop_stopped
    /\ latest' = "none"
    /\ queued' = ClearQueue(queued)
    /\ IF pool_down
         THEN /\ Return(c, "E")
              /\ UNCHANGED <<fut, pids, running, loop_stopped, pool_broken, mailbox>>
         ELSE /\ fut' = Settled(fs2)
              /\ pids' = EmptyMap
              /\ running' = EmptyMap
              /\ loop_stopped' = TRUE
              /\ pool_broken' = (pool_broken \/ killed)
              /\ IF closed
                   THEN /\ Return(c, "E")
                        /\ UNCHANGED mailbox
                   ELSE /\ mailbox' = <<>>
                        /\ call' = [call EXCEPT ![c].pc = "sd_pools"]
    /\ hooked' = "-"
    /\ UNCHANGED <<caps, callback_direct, notify, shutdown_flag, pool_gen, pool_down,
                   lockOwner, ncalls, nids, nops>>

\* lines 670-674: the thread pool, the process pool (wait=False: a worker
\* that holds a work item finishes it) and the manager are shut down
ShutdownPools(c) ==
    /\ call[c].pc = "sd_pools"
    /\ pool_down' = TRUE
    /\ Return(c, "-")
    /\ hooked' = "-"
    /\ UNCHANGED <<caps, obs, flags, pool_broken, pool_gen, running, queued, pids,
                   latest, lockOwner, fut, ncalls, nids, nops>>

\* AsyncExecutor(max_workers=mw, max_processes=mp, max_queue_size=mqs) called
\* again, lines 130-146: __new__ finds cls._instance set and returns it,
\* __init__ finds _initialized True and returns before reading an argument.
\* The caller holds the one existing instance (marker "I").  Explored on an
\* engine that has been shut down.
Construct(c, mw, mp, mqs) ==
    /\ call[c].pc = "idle"
    /\ pool_down
    /\ Return(c, "I")
    /\ hooked' = "-"
    /\ UNCHANGED <<caps, obs, flags, pool, running, queued, pids, latest, lockOwner,
                   fut, ncalls, nids, nops>>

\* shutdown called by one of the threads ts
Shutdown(ts) ==
    \/ \E c \in ts : ShutdownCall(c)
    \/ \E c \in ts : ShutdownSetFlag(c)
    \/ \E c \in ts, closed \in BOOLEAN : ShutdownLocked(c, closed)
    \/ \E c \in ts : ShutdownPools(c)

\* submission, pool workers and completion handlers
Core ==
    \/ \E c \in Callers, id \in TaskIds, long \in BOOLEAN :
          ExecuteAsyncCall(c, id, long)
    \/ \E c \in Callers : ExecuteAsyncLocked(c)
    \/ \E c \in Callers : ExecuteAsyncAttach(c)
    \/ \E c \in Callers : SetNotifyProcessing(c)
    \/ \E f \in Futs, s \in 1..(MaxProcs + 1) : WorkerStart(f, s)
    \/ \E f \in Futs : WorkerExit(f)
    \/ \E f \in Futs : PickleFail(f)
    \/ \E f \in Futs : Resolve(f)
    \/ \E f \in Futs : DoneStart(f)
    \/ \E f \in Futs, o \in AllOutcomes : DoneLocked(f, o)
    \/ \E f \in Futs, o \in AllOutcomes : DoneAttach(f, o)

\* the steps common to both callback modes
Engine ==
    \/ Core
    \/ \E f \in Futs : DropCancelled(f)
    \/ \E c \in Callers, mw \in 1..(MaxThreads + 1), mp \in 1..(MaxProcs + 1) :
          SetConcurrency(c, mw, mp)
    \/ \E c \in Callers, id \in TaskIds : CancelTaskCall(c, id)
    \/ \E c \in Callers : CancelCheck(c)
    \/ \E c \in Callers : CancelRecheck(c)
    \/ \E f \in Futs : Watchdog(f)
    \/ \E c \in Callers, timeout \in BOOLEAN : CancelJoin(c, timeout)
    \/ \E c \in Callers : CancelFinish(c)
    \/ Shutdown(Callers)
    \/ \E c \in Callers, mw \in 1..(MaxThreads + 1), mp \in 1..(MaxProcs + 1),
          mqs \in 0..MaxQueue : Construct(c, mw, mp, mqs)

\* direct mode: the handler itself calls the callback; process_callbacks
\* returns at once (lines 483-484) and changes nothing
Next ==
    \/ Engine
    \/ \E f \in Futs : DoneCallback(f)

Spec == Init /\ [][Next]_vars

\* deferred mode: the handler only fills the mailbox, which the caller
\* empties with process_callbacks
NextDeferred ==
    \/ Engine
    \/ \E c \in Callers : ProcessCallbacksCall(c)
    \/ \E c \in Callers : ProcessCallbacksGet(c)
    \/ \E c \in Callers : ProcessCallbacksRun(c)

SpecDeferred == InitDeferred /\ [][NextDeferred]_vars

\* direct mode with a second thread that calls shutdown while the first
\* thread submits tasks or shuts the engine down itself
InitThreads == InitMode(TRUE, Threads, 1..MaxProcs)

NextThreads ==
    \/ Core
    \/ \E f \in Futs : DropCancelled(f)
    \/ \E f \in Futs : DoneCallback(f)
    \/ Shutdown(Threads)

SpecThreads == InitThreads /\ [][NextThreads]_vars

\* a worker process of the pool dies while it runs a task (killed by the
\* operating system, a crash of the callable): the pool becomes broken and
\* every work item it holds fails with BrokenProcessPool; the dead worker
\* does not run the finally block of _run_long_task
WorkerCrash(f) ==
    /\ fut[f].long /\ fut[f].work = "exec"
    /\ ProcessAlive(fut[f].pid)
    /\ fut' = Settled(KillWorker(fut))
    /\ pool_broken' = TRUE
    /\ hooked' = "-"
    /\ UNCHANGED <<caps, obs, flags, pool_gen, pool_down, running, queued, pids, latest,
                   lockOwner, call, ncalls, nids, nops>>

\* direct mode of an engine built with room for two worker processes, one of
\* which may die; no cancel_task, set_concurrency or shutdown call
InitBreak == InitMode(TRUE, Callers, {MaxProcs + 1})

NextBreak ==
    \/ Core
    \/ \E f \in Futs : DoneCallback(f)
    \/ \E f \in Futs : WorkerCrash(f)

SpecBreak == InitBreak /\ [][NextBreak]_vars

\* ================================================================ claims
\* the identifier is in neither registry
Fresh(id) == id \notin DOMAIN running /\ id \notin QueuedIds(queued)

\* fewer tasks of the kind are running than the capacity of the kind
Spare(long) ==
    IF long THEN long_task_count(running) < max_processes
            ELSE short_task_count(running) < max_workers

\* caller c takes the locked admission step of execute_async
Admits(c) == call[c].pc = "ea_lock" /\ call'[c].pc # "ea_lock"

\* C1: whenever the registry mutex is free, no task identifier is in both
\* the running registry and the queued registry.
C1_RegistriesDisjoint ==
    lockOwner = Free => DOMAIN running \cap QueuedIds(queued) = {}

\* a promotion has just moved a task into the running registry while other
\* tasks stay queued, and the mutex is free again
C1_Witness ==
    \E f \in Futs :
        /\ fut[f].dc = "cb" /\ fut[f].pf # 0
        /\ lockOwner = Free
        /\ fut[fut[f].pf].id \in DOMAIN running
        /\ queued # <<>>

\* C2 (as stated): as long as set_concurrency has not been called, the number
\* of running long tasks is at most the process-pool capacity.
C2_LongWithinCapacity ==
    ~conc_changed => long_task_count(running) <= max_processes

\* C3: as long as set_concurrency has not been called, the number of running
\* short tasks is at most the thread-pool capacity.
C3_ShortWithinCapacity ==
    ~conc_changed => short_task_count(running) <= max_workers

\* the thread pool is exactly full and a further short task waits
C3_Witness ==
    /\ ~conc_changed
    /\ lockOwner = Free
    /\ short_task_count(running) = max_workers
    /\ \E i \in 1..Len(queued) : ~queued[i].long

\* C4: the queued registry never holds more than max_queue_size entries.
C4_QueueWithinSize == Len(queued) <= max_queue_size

\* the queue has been filled to the largest size by accepted submissions
C4_Witness ==
    /\ max_queue_size = MaxQueue
    /\ Len(queued) = MaxQueue
    /\ \E c \in Callers : call[c].pc = "idle" /\ call[c].ret = "T"

\* C5: a fresh identifier submitted to an engine that is not shut down, with
\* fewer tasks of its kind running than the capacity of the kind, gets its
\* future created at once and is entered into the running registry when the
\* submission completes; the queued registry is left as it was, also when it
\* holds other tasks.
C5_DirectAdmission ==
    [][\A c \in Callers :
         /\ (Admits(c) /\ Fresh(call[c].id) /\ Spare(call[c].long) /\ ~shutdown_flag)
              => /\ call'[c].pc = "ea_attach"
                 /\ queued' = queued
                 /\ Len(fut') = Len(fut) + 1
                 /\ fut'[Len(fut')].id = call[c].id
                 /\ call'[c].f = Len(fut')
         /\ (call[c].pc = "ea_attach" /\ call'[c].pc = "idle")
              => /\ call[c].id \in DOMAIN running'
                 /\ running'[call[c].id].fut = call[c].f
                 /\ queued' = queued
                 /\ call[c].id \notin QueuedIds(queued')]_vars

\* the third identifier runs, admitted directly, while an earlier one waits
C5_Witness ==
    /\ nops = 0
    /\ lockOwner = Free
    /\ queued # <<>>
    /\ latest = IdOrder[3]
    /\ latest \in DOMAIN running
    /\ latest \notin QueuedIds(queued)

\* C6: a fresh identifier submitted while the running count of its kind is at
\* the capacity of the kind: with fewer than max_queue_size tasks queued the
\* call returns True and appends the task at the tail of the queue without
\* starting it; with the queue full it returns False and the registries are
\* unchanged.
C6_QueueOrReject ==
    [][\A c \in Callers :
         (Admits(c) /\ Fresh(call[c].id) /\ ~Spare(call[c].long))
           => /\ call'[c].pc = "idle"
              /\ running' = running /\ fut' = fut
              /\ IF Len(queued) < max_queue_size
                   THEN /\ call'[c].ret = "T"
                        /\ queued' = Append(queued, [id |-> call[c].id,
                                                     long |-> call[c].long,
                                                     cb |-> call[c].cb])
                   ELSE /\ call'[c].ret = "F"
                        /\ queued' = queued]_vars

\* with a queue of size 1: the second submission was queued and the third,
\* a fresh identifier, has been rejected
C6_Witness ==
    /\ max_queue_size = 1 /\ Len(queued) = 1 /\ queued[1].cb = 2
    /\ ncalls = 3 /\ nids = 3 /\ nops = 0 /\ notify
    /\ \A c \in Callers : call[c].pc = "idle" /\ call[c].ret = "F"

\* C7: execute_async with an identifier that is in the running or the queued
\* registry returns False and changes nothing: the registries, the queue
\* order, the stored descriptors and the set of futures stay as they were.
C7_DuplicateRejected ==
    [][\A c \in Callers :
         (Admits(c) /\ ~Fresh(call[c].id))
           => /\ call'[c].pc = "idle" /\ call'[c].ret = "F"
              /\ UNCHANGED <<running, queued, fut, pids, latest>>]_vars

\* the only task ever submitted is still running and a second call with its
\* identifier has returned False
C7_Witness ==
    /\ ncalls = 2 /\ nids = 1 /\ nops = 0 /\ notify
    /\ Len(fut) = 1 /\ fut[1].state = "pending"
    /\ IdOrder[1] \in DOMAIN running
    /\ \A c \in Callers : call[c].pc = "idle" /\ call[c].ret = "F"

\* C8 (as stated): a submission that passed the admission test (fresh
\* identifier, spare capacity, engine not shut down) returns True, whether
\* or not a start-notification hook is registered.
C8_ReturnsTrue ==
    [][\A c \in Callers :
         (call[c].pc = "ea_attach" /\ call'[c].pc = "idle")
           => call'[c].ret = "T"]_vars

\* C9: a completion handler starts at most one promotion, the promoted task
\* is the oldest entry of the queue, and no task moves from the queued to the
\* running registry in any other way.
C9_PromotesOldestOnly ==
    [][/\ \A f \in Futs :
            /\ (fut[f].dc = "lock" /\ fut'[f].dc = "attach")
                 => /\ queued # <<>> /\ queued' = queued
                    /\ Len(fut') = Len(fut) + 1
                    /\ fut'[f].pf = Len(fut')
                    /\ fut'[Len(fut')].id = queued[1].id
            /\ (fut[f].dc = "attach" /\ fut'[f].dc # "attach")
                 => /\ fut'[f].dc \in {"cb", "blocked"}
                    /\ fut'[f].dc = "cb"
                         => /\ queued' = Tail(queued)
                            /\ DOMAIN running' = DOMAIN running \cup {queued[1].id}
                            /\ running'[queued[1].id].fut = fut[f].pf
            /\ fut[f].dc \in {"cb", "end", "blocked"}
                 => fut'[f].dc \notin {"start", "lock", "attach"}
       /\ \A id \in QueuedIds(queued) :
            id \in DOMAIN running' \ DOMAIN running
              => /\ id = queued[1].id
                 /\ \E f \in Futs : fut[f].dc = "attach" /\ fut'[f].dc = "cb"]_vars

\* of two queued tasks the older has been promoted and the newer still waits
C9_Witness ==
    \E f \in Futs :
        /\ fut[f].dc = "cb" /\ fut[f].pf # 0
        /\ fut[fut[f].pf].cb = 2
        /\ Len(queued) = 1 /\ queued[1].cb = 3

\* C10 (as stated, general part): when a registered short task completes on
\* an engine that is not shut down and the oldest queued task is short, that
\* task is promoted whenever fewer short tasks are running than the thread
\* capacity, however many long tasks are running.
C10_ShortHeadPromoted ==
    [][\A f \in Futs :
         (/\ fut[f].dc = "lock" /\ fut'[f].dc # "lock"
          /\ ~fut[f].long
          /\ fut[f].id \in DOMAIN running /\ running[fut[f].id].fut = f
          /\ queued # <<>> /\ ~queued[1].long
          /\ short_task_count(Pop(running, fut[f].id)) < max_workers
          /\ ~shutdown_flag /\ ~conc_changed)
           => fut'[f].dc = "attach"]_vars

\* C18: with a hook registered, a step calls the hook with an identifier
\* exactly when that step enters the identifier into the running registry
\* (by direct admission or by promotion), and it calls it once; steps that
\* queue a task, cancel a queued task or shut the engine down call no hook.
C18_HookOncePerStart ==
    [][notify =>
         \A id \in TaskIds :
            hooked' = id <=> (id \notin DOMAIN running /\ id \in DOMAIN running')]_vars

\* the hook has just been called for a task started by promotion
C18_Witness ==
    /\ notify
    /\ hooked \in DOMAIN running
    /\ \E f \in Futs : fut[f].pf # 0 /\ fut[fut[f].pf].id = hooked

\* C15: a cancel_task call on an identifier that is in the queued registry
\* returns True at once and removes exactly that entry from the queue; the
\* identifier is not in the running registry, no future is created for it,
\* the process registry is not touched and no hook is called.
C15_CancelQueued ==
    [][\A c \in Callers, id \in TaskIds :
         (CancelTaskCall(c, id) /\ id \in QueuedIds(queued))
           => /\ call'[c].pc = "idle" /\ call'[c].ret = "T"
              /\ queued' = SelectSeq(queued, LAMBDA d : d.id # id)
              /\ Len(queued') = Len(queued) - 1
              /\ id \notin DOMAIN running'
              /\ running' = running /\ pids' = pids /\ fut' = fut
              /\ hooked' = "-"]_vars

\* the only queued task has been cancelled while a long task keeps running:
\* two identifiers were submitted, one future was ever created
C15_Witness ==
    /\ nops = 1 /\ ~conc_changed /\ ~shutdown_flag /\ ~pool_broken
    /\ ncalls = 2 /\ nids = 2
    /\ Len(fut) = 1 /\ fut[1].long /\ fut[1].state = "pending" /\ ~fut[1].wd
    /\ DOMAIN running = {fut[1].id}
    /\ queued = <<>>
    /\ \A c \in Callers : call[c].pc = "idle" /\ call[c].ret = "T"

\* C11 (as stated): in direct mode, with a hook registered and no cancel_task,
\* shutdown or set_concurrency call, the completion handler of a task that is
\* in the running registry leaves its locked section either into the call of
\* the task's callback or into the promotion that precedes that call.
C11_CallbackInvoked ==
    [][\A f \in Futs :
         (/\ callback_direct /\ notify /\ nops = 0 /\ nops' = 0
          /\ fut[f].dc = "lock" /\ fut[f].thr = "loop"
          /\ fut[f].id \in DOMAIN running /\ running[fut[f].id].fut = f
          /\ fut'[f].dc # "lock")
           => fut'[f].dc \in {"cb", "attach"}]_vars

\* the steps that the engine's threads and a call in progress take by
\* themselves: no new call of the caller is among them
Progress ==
    \/ \E c \in Callers : ExecuteAsyncLocked(c) \/ ExecuteAsyncAttach(c)
    \/ \E f \in Futs, s \in 1..(MaxProcs + 1) : WorkerStart(f, s)
    \/ \E f \in Futs : WorkerExit(f) \/ Resolve(f) \/ DoneStart(f) \/ DoneCallback(f)
    \/ \E f \in Futs, o \in AllOutcomes : DoneLocked(f, o) \/ DoneAttach(f, o)

\* C12 (as stated): with a hook registered, payloads that reach their
\* workers and no cancel_task, shutdown or set_concurrency call, the engine
\* is not stuck while a task is still in the running or the queued registry:
\* some thread of it can take a step towards emptying the registries.
C12_RegistriesDrain ==
    (/\ nops = 0 /\ notify
     /\ \A f \in Futs : fut[f].work # "nopickle"
     /\ (running # EmptyMap \/ queued # <<>>))
      => ENABLED Progress

\* C13 (as stated): the callback of a task whose callable raised is called
\* with one failure object that wraps the exception raised, and the callback
\* of a task whose callable returned is called with the object returned,
\* unchanged.
C13_ResultPassed ==
    \A f \in Futs :
        fut[f].dc = "cb" =>
            /\ fut[f].out = "raised" =>
                  fut[f].res = [cls |-> "RuntimeError", arg |-> "ValueError"]
            /\ fut[f].out \in {"value", "retexc"} =>
                  fut[f].res = FutureResult(fut[f].out)

\* C14 (as stated): in direct mode, with a hook registered and no
\* cancel_task, shutdown or set_concurrency call, the handler of a long task
\* whose payload could not be pickled removes the task from the running
\* registry, finds no process-registry entry for it, and goes on to call the
\* task's callback with a failure that wraps the pickling error.
C14_NotTransferableDelivered ==
    [][\A f \in Futs :
         (/\ callback_direct /\ notify /\ nops = 0 /\ nops' = 0
          /\ fut[f].dc = "lock" /\ fut[f].thr = "loop"
          /\ fut[f].long /\ fut[f].work = "nopickle"
          /\ fut[f].id \in DOMAIN running /\ running[fut[f].id].fut = f
          /\ fut'[f].dc # "lock")
           => /\ fut'[f].dc \in {"cb", "attach"}
              /\ fut'[f].dc = "cb" =>
                    fut'[f].res = [cls |-> "RuntimeError", arg |-> "PicklingError"]
              /\ fut[f].pid = 0 /\ fut[f].id \notin DOMAIN pids
              /\ fut[f].id \notin DOMAIN running']_vars

\* C16 (as stated): when a cancel_task call that found a long task in the
\* running registry, and whose cancellation went through within the timeout,
\* returns, it returns True, is_task_active is false for the task and no pool
\* worker is executing it.
C16_CancelRunningLong ==
    [][\A c \in Callers :
         (/\ call[c].op = "cancel_task" /\ call[c].long
          /\ call[c].pc = "ct_finish"
          /\ call'[c].pc = "idle")
           => /\ call'[c].ret = "T"
              /\ ~IsTaskActive(call[c].id)'
              /\ \A f \in Futs :
                    ~(fut'[f].long /\ fut'[f].id = call[c].id /\ fut'[f].work = "exec")]_vars

\* C17 (as stated): a cancel_task call on an identifier that is not queued
\* and is either not in the running registry or there with a future that is
\* done goes on to its test of the future, which returns False; neither step
\* changes the running, queued or process registry.
C17_CancelNothing ==
    [][\A c \in Callers :
         /\ \A id \in TaskIds :
              (/\ CancelTaskCall(c, id)
               /\ id \notin QueuedIds(queued)
               /\ (id \notin DOMAIN running \/ FutDone(running[id].fut)))
                => /\ call'[c].pc = "ct_check"
                   /\ running' = running /\ queued' = queued /\ pids' = pids
         /\ (/\ call[c].pc = "ct_check" /\ call'[c].pc # "ct_check"
              /\ (call[c].f = 0 \/ FutDone(call[c].f)))
                => /\ call'[c].pc = "idle" /\ call'[c].ret = "F"
                   /\ running' = running /\ queued' = queued /\ pids' = pids]_vars

\* C19 (as stated): in direct mode a callback only runs on the event-loop
\* thread, and at most one callback runs at any time.
C19_CallbacksOnLoopThread ==
    callback_direct =>
        /\ \A f \in Futs : fut[f].dc = "cb" => fut[f].thr = "loop"
        /\ Cardinality({f \in Futs : fut[f].dc = "cb"}) <= 1

\* C20: in deferred mode no engine thread ever calls a callback; the
\* mailbox grows only by one pair at its tail, put by a completion handler in
\* its locked section (which a handler passes once) and made of the task's
\* callback and its result; process_callbacks takes the oldest pair, calls
\* exactly that callback with exactly that result, repeats, and returns only
\* when it has found the mailbox empty.
C20_DeferredDelivery ==
    [][/\ \A f \in DOMAIN fut' : fut'[f].dc # "cb"
       /\ Len(mailbox') > Len(mailbox) =>
             \E f \in Futs :
                /\ fut[f].dc = "lock" /\ fut'[f].dc # "lock"
                /\ mailbox' = Append(mailbox, mailbox'[Len(mailbox')])
                /\ mailbox'[Len(mailbox')].cb = fut[f].cb
                /\ mailbox'[Len(mailbox')].res \in
                      {Normalise(FutureResult(o)) : o \in OutcomesOf(fut[f])}
       /\ \A f \in Futs :
             (fut[f].dc = "lock" /\ fut'[f].dc # "lock")
               => Len(mailbox') = Len(mailbox) + 1
       /\ \A c \in Callers :
             /\ (call[c].pc = "pc_loop" /\ call'[c].pc # "pc_loop")
                  => IF mailbox = <<>>
                       THEN call'[c].pc = "idle" /\ mailbox' = <<>>
                       ELSE /\ call'[c].pc = "pc_run"
                            /\ call'[c].cb = Head(mailbox).cb
                            /\ call'[c].res = Head(mailbox).res
                            /\ mailbox' = Tail(mailbox)
             /\ (call[c].pc = "pc_run" /\ call'[c].pc # "pc_run")
                  => call'[c].pc = "pc_loop"]_vars

\* process_callbacks is calling the callback of the first of two completed
\* tasks while the pair of the second waits in the mailbox
C20_Witness ==
    /\ ~callback_direct /\ ~shutdown_flag
    /\ \E c \in Callers : call[c].pc = "pc_run" /\ call[c].cb = 1
    /\ Len(mailbox) = 1 /\ mailbox[1].cb = 2
\* the engine state: capacities, registries, pools, loop, flags and futures
engine == <<caps, obs, flags, pool, running, queued, pids, latest, lockOwner, fut>>

\* C21: a call of shutdown() made after an earlier call has returned (pools
\* and manager are shut down) raises nothing and changes no engine state:
\* it returns at the test of the flag.
C21_SecondShutdownNoop ==
    [][\A c \in DOMAIN call :
          ShutdownCall(c) /\ pool_down
            => /\ UNCHANGED engine
               /\ call'[c] = [IdleCall EXCEPT !.ret = "N"]]_vars

\* a second call has returned on an engine that is shut down
C21_Witness ==
    /\ pool_down /\ shutdown_flag /\ loop_stopped
    /\ running = EmptyMap /\ queued = <<>>
    /\ call["u1"].pc = "idle" /\ call["u1"].ret = "N"

\* C22: when shutdown() is called from two threads at the same time, only
\* one of them gets past the test of the flag and runs the teardown; the
\* other returns at once.
C22_OneTeardown ==
    Cardinality({c \in DOMAIN call : call[c].op = "shutdown"}) <= 1

\* C23: once a shutdown() call has returned, the running and the queued
\* registry are empty and stay empty, whatever completion, promotion or
\* execute_async call overlaps or follows the shutdown, and an execute_async
\* call made after that return gives False.
C23_ShutdownEmpties ==
    /\ [](pool_down => running = EmptyMap /\ queued = <<>>)
    /\ [][\A c \in DOMAIN call, id \in TaskIds, long \in BOOLEAN :
             ExecuteAsyncCall(c, id, long) /\ pool_down
               => call'[c] = [IdleCall EXCEPT !.ret = "F"]]_vars

\* the second thread has shut the engine down, a short task was cancelled by
\* it, and an execute_async call of the first thread has returned False
C23_Witness ==
    /\ pool_down /\ running = EmptyMap /\ queued = <<>>
    /\ call["u2"].pc = "idle" /\ call["u2"].ret = "-"
    /\ call["u1"].pc = "idle" /\ call["u1"].ret = "F"
    /\ \E f \in Futs : fut[f].state = "cancelled" /\ ~fut[f].long

\* C24: once shutdown() has returned, no worker process is still executing
\* a long task that was in the running registry when shutdown was called
\* (its pending future was cancelled by the shutdown).
C24_NoWorkerLeft ==
    pool_down =>
        ~\E f \in Futs : /\ fut[f].long /\ fut[f].work = "exec"
                         /\ fut[f].state = "cancelled"

\* C25: a task that is running with a callback when shutdown() is called gets
\* that callback called with a cancelled or failed result.  Checked at the
\* end of the road: once shutdown has returned and the handler of a short
\* task whose future the shutdown cancelled has finished, nothing further
\* happens for that task, so its callback must have been called by then.
C25_ShutdownNotifies ==
    pool_down /\ notify =>
        \A f \in Futs :
            fut[f].state = "cancelled" /\ ~fut[f].long /\ fut[f].dc = "end"
              => fut[f].res # NoResult

\* C26: a long task that is submitted or promoted after the process pool
\* broke is handed to a healthy pool (the engine has replaced the broken one),
\* so it is not failed with a broken-pool error at once.
C26_SubmittedToHealthyPool ==
    [][Len(fut') = Len(fut) + 1 /\ fut'[Len(fut')].long
         => fut'[Len(fut')].work = "pool"]_vars

\* C27: when the broken process pool is replaced, a long task that was in
\* flight on the old pool and was purged from the registries still gets its
\* callback called with the failure: the handler of such a task does not
\* finish without calling it.
C27_PurgedNotified ==
    [][\A f \in Futs :
          /\ fut[f].dc = "lock" /\ fut[f].long /\ fut[f].work = "broken"
          /\ fut[f].id \notin DOMAIN running
          /\ notify
          => fut'[f].dc # "end"]_vars

\* C28: constructing AsyncExecutor after the earlier executor was shut down
\* gives an executor that is ready (loop running, shutdown flag clear) and
\* has the capacities passed to that construction.
C28_ConstructAfterShutdown ==
    [][\A c \in DOMAIN call, mw \in 1..(MaxThreads + 1), mp \in 1..(MaxProcs + 1),
          mqs \in 0..MaxQueue :
          Construct(c, mw, mp, mqs)
            => /\ ~shutdown_flag' /\ ~loop_stopped' /\ ~pool_down'
               /\ max_workers' = mw /\ max_processes' = mp
               /\ max_queue_size' = mqs]_vars

\* a handler of future f takes its locked step and the cleanup of line 311
\* applies, so that _process_next_queued_task is called
Promoting(f) ==
    /\ fut[f].dc = "lock" /\ fut'[f].dc # "lock"
    /\ CleanupApplies(fut[f].id, running)

\* after the cleanup of future f's task, as many tasks of the kind of the
\* oldest queued task are running as its pool has room for
HeadPoolAtCapacity(f) ==
    LET r1 == CleanRunning(fut[f].id, running)
        h == FirstQueued(queued)
    IN IF h.long THEN long_task_count(r1) >= max_processes
                 ELSE short_task_count(r1) >= max_workers

\* C29: when a completion triggers promotion and the pool of the oldest
\* queued task is at capacity, nothing is promoted: the queue keeps its
\* entries in their order, no future is created for a queued task and no
\* identifier enters the running registry.
C29_HeadBlocksQueue ==
    [][\A f \in Futs :
          Promoting(f) /\ queued # <<>> /\ HeadPoolAtCapacity(f)
            => /\ queued' = queued
               /\ Len(fut') = Len(fut)
               /\ DOMAIN running' \subseteq DOMAIN running]_vars

\* C30: after cancel_task has returned True for a running task (its second
\* locked section removed the identifier from the running registry), the
\* completion handler of that task still promotes: when it takes its locked
\* step with a non-empty queue whose oldest task has spare capacity, by the
\* count of running tasks of its kind and by the engine's own test, that
\* task is submitted.
C30_CancelledStillPromotes ==
    [][\A f \in Futs :
          /\ fut[f].dc = "lock" /\ fut'[f].dc # "lock"
          /\ fut[f].id \notin DOMAIN running
          /\ ~shutdown_flag /\ notify
          /\ queued # <<>>
          /\ Spare(FirstQueued(queued).long)
          /\ ~ExecUnitFull(FirstQueued(queued).long, running, pids,
                           max_workers, max_processes)
          => /\ Len(fut') = Len(fut) + 1
             /\ fut'[Len(fut')].id = FirstQueued(queued).id]_vars

\* C31: once the completion handler of a task has finished on an engine that
\* is not shut down, the running registry has no entry for that task and,
\* for a long task, the process registry has no pid recorded by its worker.
C31_CleanedAfterHandler ==
    \A f \in Futs :
        /\ fut[f].attached /\ fut[f].dc = "end" /\ fut[f].state # "pending"
        /\ fut[f].id # "-" /\ ~shutdown_flag
        => /\ ~(fut[f].id \in DOMAIN running /\ running[fut[f].id].fut = f)
           /\ fut[f].long =>
                ~(/\ fut[f].id \in DOMAIN pids /\ fut[f].pid # 0
                  /\ pids[fut[f].id] = fut[f].pid)

\* C32: on completion of a running task its callback is delivered before the
\* next queued task is promoted: when the handler's promotion invokes the
\* start-notification hook for the promoted task, the callback of the
\* completed task has already been called with its result.
C32_CallbackBeforePromotion ==
    [][\A f \in Futs :
          /\ fut[f].dc = "attach" /\ fut'[f].dc # "attach"
          /\ fut[f].exist
          /\ hooked' # "-"
          => fut[f].res # NoResult]_vars

\* C33: execute_async accepts an identifier (submits or queues the task)
\* only when no earlier task with that identifier is still executing on a
\* pool thread or in a worker process.
C33_NoReuseWhileExecuting ==
    [][\A c \in DOMAIN call :
          /\ Admits(c) /\ notify
          /\ (call'[c].pc = "ea_attach" \/ call'[c].ret = "T")
          => ~\E g \in Futs : fut[g].id = call[c].id /\ fut[g].work = "exec"]_vars

\* C34: for a running short task, cancel_task returns True only if the
\* future of the task was actually cancelled: when the cancellation attempt
\* has ended within the timeout without cancelling it, the call does not
\* return True.
C34_ShortTrueOnlyIfCancelled ==
    [][\A c \in DOMAIN call :
          /\ call[c].op = "cancel_task" /\ call[c].f # 0 /\ ~call[c].long
          /\ WatchdogReturned(call[c].f)
          /\ call'[c].pc = "idle" /\ call'[c].ret = "T"
          => fut[call[c].f].state = "cancelled"]_vars

\* C35: no execute_async call ends up waiting for the registry mutex that
\* its own thread holds (the done-callback run inline by add_done_callback
\* on a future that is already done).
C35_NoSelfDeadlock ==
    \A c \in DOMAIN call :
        ~(call[c].pc = "ea_blocked" /\ lockOwner = CallerT(c))

C37_FalseMeansNothing ==
    [][\A c \in DOMAIN call :
          /\ call[c].op = "execute_async"
          /\ call'[c].pc = "idle" /\ call'[c].ret = "F"
          => /\ call[c].f = 0
             /\ running' = running
             /\ queued' = queued]_vars

\* _done_callback lines 306-320 in direct mode, for the handler of future f
\* about to take its locked step: callback(result) is reached only if the
\* identifier is registered (exist_id, 306) and the promotion of 315 does not
\* leave the handler with StopIteration (line 447 on an empty queue)
DirectDelivers(f) ==
    LET id == fut[f].id
        lat1 == IF latest = id THEN "none" ELSE latest
    IN /\ id \in DOMAIN running
       /\ ~(CleanupApplies(id, running) /\ queued = <<>> /\ lat1 # "none")

\* C38: the completions delivered are the same in both modes: in deferred
\* mode a handler puts its (callback, result) pair into the mailbox exactly
\* when, from the same engine state, the handler of direct mode would call
\* the callback.
C38_SameDeliveries ==
    [][\A f \in Futs :
          fut[f].dc = "lock" /\ fut'[f].dc # "lock"
            => (Len(mailbox') = Len(mailbox) + 1 <=> DirectDelivers(f))]_vars

\* C39: before shutdown, whenever the registry mutex is free, every
\* identifier with an entry in the process registry is in the running
\* registry as a long task.
C39_PidsWithinRunning ==
    ~shutdown_flag /\ lockOwner = Free
      => \A x \in DOMAIN pids : x \in DOMAIN running /\ running[x].long

====
